---- MODULE Spec2Model ----
(***************************************************************************)
(* Model of scripts/live-image-post-update-version.py: the script that     *)
(* appends the kernel option "rootwait" to the last line of the single     *)
(* boot-loader entry file below <root>/boot/loader/entries/.               *)
(*                                                                         *)
(* File contents and lines are sequences of one-character strings.  Paths, *)
(* file names and the pieces of an error message are strings.  An          *)
(* invocation is a linear pass; pc is the position of the interpreter.     *)
(* Every filesystem call may fail with an OSError, chosen by the           *)
(* environment.                                                            *)
(***************************************************************************)
EXTENDS Integers, Sequences, FiniteSets, TLC

\* ---------------------------------------------------------------- bounds
MaxLines == 2       \* lines of a generated entry file
MaxEntries == 2     \* names that may be present in the entries directory
MaxArgs == 2        \* positional command-line arguments
MaxRuns == 2        \* invocations in a row on the same tree
MaxFaults == 1      \* filesystem calls the environment fails, over all invocations

\* ------------------------------------------------------- text primitives
OPTIONS_PREFIX == <<"o", "p", "t", "i", "o", "n", "s", " ">>
ROOTWAIT_SUFFIX == <<" ", "r", "o", "o", "t", "w", "a", "i", "t", "\n">>
linesep == <<"\n">>

\* one line of universal-newline text reading: "\n", "\r\n" and "\r" all end
\* a line and are all handed to the program as "\n"
RECURSIVE SplitLines(_, _, _)
SplitLines(s, i, cur) ==
    IF i > Len(s)
    THEN IF cur = <<>> THEN <<>> ELSE <<cur>>
    ELSE IF s[i] = "\n"
         THEN <<Append(cur, "\n")>> \o SplitLines(s, i + 1, <<>>)
         ELSE IF s[i] = "\r"
              THEN IF i < Len(s) /\ s[i + 1] = "\n"
                   THEN <<Append(cur, "\n")>> \o SplitLines(s, i + 2, <<>>)
                   ELSE <<Append(cur, "\n")>> \o SplitLines(s, i + 1, <<>>)
              ELSE SplitLines(s, i + 1, Append(cur, s[i]))

readlines(content) == SplitLines(content, 1, <<>>)

\* text-mode writing: every "\n" of a line is written as os.linesep
RECURSIVE TranslateOut(_)
TranslateOut(line) ==
    IF line = <<>> THEN <<>>
    ELSE (IF Head(line) = "\n" THEN linesep ELSE <<Head(line)>>)
         \o TranslateOut(Tail(line))

RECURSIVE writelines(_)
writelines(lines) ==
    IF lines = <<>> THEN <<>>
    ELSE TranslateOut(Head(lines)) \o writelines(Tail(lines))

\* the prefix compared without its last character: startswith("options")
startswith_nospace(line, prefix) ==
    /\ Len(line) >= Len(prefix) - 1
    /\ SubSeq(line, 1, Len(prefix) - 1) = SubSeq(prefix, 1, Len(prefix) - 1)

\* the test of the prefix gate inverted
startswith_inverted(line, prefix) ==
    ~ (Len(line) >= Len(prefix) /\ SubSeq(line, 1, Len(prefix)) = prefix)

startswith(line, prefix) ==
    /\ Len(line) >= Len(prefix)
    /\ SubSeq(line, 1, Len(prefix)) = prefix

\* line[:-1]
DropLast(line) == SubSeq(line, 1, Len(line) - 1)

\* a guard that leaves a line already ending in " rootwait\n" alone
NewOptionsLine_guarded(options_line) ==
    IF /\ Len(options_line) >= Len(ROOTWAIT_SUFFIX)
       /\ SubSeq(options_line, Len(options_line) - Len(ROOTWAIT_SUFFIX) + 1,
                 Len(options_line)) = ROOTWAIT_SUFFIX
    THEN options_line
    ELSE DropLast(options_line) \o ROOTWAIT_SUFFIX

\* options_line[:-1] + " rootwait\n"
NewOptionsLine(options_line) == DropLast(options_line) \o ROOTWAIT_SUFFIX

\* entry_content[-1] = options_line
ReplaceLast(lines, line) == [lines EXCEPT ![Len(lines)] = line]

\* --------------------------------------------------------- error messages
Quote(s) == "'" \o s \o "'"

RECURSIVE JoinRepr(_)
JoinRepr(list) ==
    IF list = <<>> THEN ""
    ELSE IF Len(list) = 1 THEN Quote(list[1])
         ELSE Quote(list[1]) \o ", " \o JoinRepr(Tail(list))

\* str(list) of a list of file names
ListRepr(list) == "[" \o JoinRepr(list) \o "]"

EntryCountError(dir, listing) ==
    <<"Unable to find specific entry file in ", dir, ", found ",
      ListRepr(listing), " instead">>

OptionsLineError ==
    <<"Last line of entry file is not the kernel ", "commandline options">>

IndexError == <<"list index out of range">>

OSError(errno, path) ==
    IF path = "" THEN <<errno>> ELSE <<errno, ": ", Quote(path)>>

ENOENT == "[Errno 2] No such file or directory"
EACCES == "[Errno 13] Permission denied"
ENOSPC == "[Errno 28] No space left on device"
EFBIG == "[Errno 27] File too large"
EIO == "[Errno 5] Input/output error"

\* ------------------------------------------------------------ environment
SCRIPT == "live-image-post-update-version.py"
ENTRIES_SUFFIX == "/boot/loader/entries/"
Roots == {"/img", "/mnt"}
EntryNames == <<"a.conf", "b.conf", "c.conf", "d.conf">>
Names == {EntryNames[i] : i \in 1..MaxEntries}

\* bodies of the last line: around the "options " gate
Bodies == { <<>>,
            <<"t">>,
            <<"o", "p", "t", "i", "o", "n", "s">>,
            OPTIONS_PREFIX,
            OPTIONS_PREFIX \o <<"x">> }
\* the lines before the last one, which the program never inspects: blank
\* lines ending in "\n" or "\r\n"
HeadBodies == { <<>> }
HeadTerminators == { <<"\n">>, <<"\r", "\n">> }
\* the ends of a last line that has one
Terminators == { <<"\n">>, <<"\r", "\n">>, <<"\r">> }

RECURSIVE Texts(_)
\* every text of exactly n terminated lines before the last line
Texts(n) ==
    IF n = 0 THEN {<<>>}
    ELSE {t \o b \o e : t \in Texts(n - 1), b \in HeadBodies, e \in HeadTerminators}

\* a last line, with a terminator or, when it is not empty, without one
LastLines ==
    {b \o e : b \in Bodies, e \in Terminators} \cup (Bodies \ {<<>>})

\* entry files of at most MaxLines lines
Contents ==
    {<<>>} \cup UNION {{t \o l : t \in Texts(n - 1), l \in LastLines} : n \in 1..MaxLines}

SmallContents == { <<>>, OPTIONS_PREFIX \o <<"x", "\n">> }

Perms(S) ==
    {p \in [1..Cardinality(S) -> S] : \A i, j \in 1..Cardinality(S) : p[i] = p[j] => i = j}

VARIABLES
    sys_argv,        \* the command line, script name first
    dirs,            \* existing directories
    files,           \* path -> content of every regular file
    pc,              \* position of the interpreter
    entry_path, entry_file, file_full_path, entry_content,   \* locals
    exep,            \* the exception being handled, as message pieces
    stdout,          \* what this invocation printed, one element per print
    exits,           \* arguments of the sys.exit calls of this invocation
    fsops,           \* filesystem calls of this invocation, in order
    faulted,         \* the environment failed a filesystem call of this invocation
    faults,          \* filesystem calls the environment has failed so far
    history,         \* exit codes of the finished earlier invocations
    files0,          \* files when this invocation started
    filesInit        \* files when the first invocation started

vars == <<sys_argv, dirs, files, pc, entry_path, entry_file, file_full_path,
          entry_content, exep, stdout, exits, fsops, faulted, faults,
          history, files0, filesInit>>

locals == <<entry_path, entry_file, file_full_path, entry_content>>
env == <<sys_argv, dirs, history, files0, filesInit>>

\* the environment fails the filesystem call being made
Fault ==
    /\ faults < MaxFaults
    /\ faults' = faults + 1
    /\ faulted' = TRUE

NoFault == UNCHANGED <<faulted, faults>>

\* os.listdir as a set; the order of the list is the operating system's
DirNames(fs, dir) == {n \in Names : (dir \o n) \in DOMAIN fs}

Init ==
    /\ \E n \in 0..MaxArgs : \E args \in [1..n -> Roots] :
          sys_argv = <<SCRIPT>> \o args
    /\ dirs = {"/img" \o ENTRIES_SUFFIX}
    /\ \E cnt \in 0..MaxEntries : \E S \in {{EntryNames[i] : i \in 1..cnt}} :
          \E f \in [S -> IF Cardinality(S) = 1 THEN Contents ELSE SmallContents] :
             files = [p \in {("/img" \o ENTRIES_SUFFIX) \o n : n \in S} |->
                        f[CHOOSE n \in S : ("/img" \o ENTRIES_SUFFIX) \o n = p]]
    /\ pc = "main"
    /\ entry_path = "" /\ entry_file = <<>> /\ file_full_path = ""
    /\ entry_content = <<>>
    /\ exep = <<>> /\ stdout = <<>> /\ exits = <<>> /\ fsops = <<>>
    /\ faulted = FALSE /\ faults = 0
    /\ history = <<>>
    /\ files0 = files /\ filesInit = files

\* sys.exit(-1) of the argument check and of the exception handler
ARG_ERROR_CODE == -1
PATCH_ERROR_CODE == -1

\* the argument check accepting extra arguments
ArgCountOk_atleast(argv) == Len(argv) >= 2

\* len(sys.argv) != 2, negated
ArgCountOk(argv) == Len(argv) = 2

\* the entry-count gate accepting several entries
EntryCountOk_atleast(listing) == Len(listing) >= 1

\* len(entry_file) != 1, negated
EntryCountOk(listing) == Len(listing) = 1

\* if len(sys.argv) != 2: sys.exit(-1)
MainArgs ==
    /\ pc = "main"
    /\ IF ~ ArgCountOk(sys_argv)
       THEN /\ exits' = Append(exits, ARG_ERROR_CODE)
            /\ pc' = "exited"
       ELSE /\ pc' = "listdir"
            /\ UNCHANGED exits
    /\ UNCHANGED <<env, files, locals, exep, stdout, fsops, faulted, faults>>

\* the exception swallowed: control falls through to sys.exit(0)
Raise_swallowed(e) ==
    /\ exep' = e
    /\ pc' = "exit0"

\* raise, and any exception leaving a call: control goes to the handler
Raise(e) ==
    /\ exep' = e
    /\ pc' = "except"

\* entry_path = path + suffix; entry_file = os.listdir(entry_path);
\* if len(entry_file) != 1: raise; file_full_path = entry_path + entry_file[0]
ListDir ==
    /\ pc = "listdir"
    /\ LET dir == sys_argv[2] \o ENTRIES_SUFFIX IN
       /\ entry_path' = dir
       /\ fsops' = Append(fsops, "listdir")
       /\ \/ /\ dir \notin dirs
             /\ Raise(OSError(ENOENT, dir))
             /\ UNCHANGED <<entry_file, file_full_path, faulted, faults>>
          \/ /\ dir \in dirs
             /\ Raise(OSError(EACCES, dir))
             /\ Fault
             /\ UNCHANGED <<entry_file, file_full_path>>
          \/ /\ dir \in dirs
             /\ \E listing \in Perms(DirNames(files, dir)) :
                   /\ entry_file' = listing
                   /\ IF ~ EntryCountOk(listing)
                      THEN /\ Raise(EntryCountError(dir, listing))
                           /\ UNCHANGED file_full_path
                      ELSE /\ file_full_path' = dir \o listing[1]
                           /\ pc' = "read"
                           /\ UNCHANGED exep
             /\ NoFault
    /\ UNCHANGED <<env, files, entry_content, stdout, exits>>

\* with open(file_full_path, "r") as entry: entry_content = entry.readlines()
ReadFile ==
    /\ pc = "read"
    /\ \/ /\ fsops' = Append(fsops, "open_r")
          /\ Raise(OSError(EACCES, file_full_path))
          /\ Fault
          /\ UNCHANGED entry_content
       \/ /\ file_full_path \in DOMAIN files
          /\ fsops' = fsops \o <<"open_r", "read", "close_r">>
          /\ entry_content' = readlines(files[file_full_path])
          /\ pc' = "check"
          /\ UNCHANGED <<exep, faulted, faults>>
    /\ UNCHANGED <<env, files, entry_path, entry_file, file_full_path, stdout, exits>>

\* options_line = entry_content[-1]; the prefix gate; the new last line
CheckAndEdit ==
    /\ pc = "check"
    /\ IF entry_content = <<>>
       THEN /\ Raise(IndexError)
            /\ UNCHANGED entry_content
       ELSE LET options_line == entry_content[Len(entry_content)] IN
            IF ~ startswith(options_line, OPTIONS_PREFIX)
            THEN /\ Raise(OptionsLineError)
                 /\ UNCHANGED entry_content
            ELSE /\ entry_content' =
                       ReplaceLast(entry_content, NewOptionsLine(options_line))
                 /\ pc' = "unlink"
                 /\ UNCHANGED exep
    /\ UNCHANGED <<env, files, entry_path, entry_file, file_full_path, stdout,
                   exits, fsops, faulted, faults>>

RemoveFile(fs, path) == [p \in DOMAIN fs \ {path} |-> fs[p]]
\* the new text written beside the entry instead of at its path
PutFile_renamed(fs, path, content) ==
    [p \in DOMAIN fs \cup {path \o ".new"} |->
        IF p = path \o ".new" THEN content ELSE fs[p]]

PutFile(fs, path, content) ==
    [p \in DOMAIN fs \cup {path} |-> IF p = path THEN content ELSE fs[p]]

\* os.unlink(file_full_path)
Unlink ==
    /\ pc = "unlink"
    /\ fsops' = Append(fsops, "unlink")
    /\ \/ /\ Raise(OSError(EACCES, file_full_path))
          /\ Fault
          /\ UNCHANGED files
       \/ /\ file_full_path \in DOMAIN files
          /\ files' = RemoveFile(files, file_full_path)
          /\ pc' = "open_w"
          /\ UNCHANGED <<exep, faulted, faults>>
    /\ UNCHANGED <<env, locals, stdout, exits>>

\* open(file_full_path, "w")
OpenWrite ==
    /\ pc = "open_w"
    /\ fsops' = Append(fsops, "open_w")
    /\ \/ /\ Raise(OSError(ENOSPC, file_full_path))
          /\ Fault
          /\ UNCHANGED files
       \/ /\ files' = PutFile(files, file_full_path, <<>>)
          /\ pc' = "write"
          /\ UNCHANGED <<exep, faulted, faults>>
    /\ UNCHANGED <<env, locals, stdout, exits>>

\* how much of the data a failed write or close may leave in the file.  The
\* text goes out of the buffer at close: the operating system may stop the
\* write after any number of characters, a write that failed is made again
\* at close and may then go through, and close itself may fail after the
\* whole text was written -- so every length up to the whole text
ShortWrites(lines) == 0..Len(writelines(lines))

\* the errors the operating system reports for the write or the close
WriteErrnos == {ENOSPC, EFBIG, EIO}

\* entry.writelines(entry_content) and the close at the end of the with block
WriteLines ==
    /\ pc = "write"
    /\ fsops' = fsops \o <<"write", "close_w">>
    /\ LET data == writelines(entry_content) IN
       \/ /\ \E k \in ShortWrites(entry_content) :
                files' = PutFile(files, file_full_path, SubSeq(data, 1, k))
          /\ \E errno \in WriteErrnos : Raise(OSError(errno, ""))
          /\ Fault
       \/ /\ files' = PutFile(files, file_full_path, data)
          /\ pc' = "exit0"
          /\ UNCHANGED <<exep, faulted, faults>>
    /\ UNCHANGED <<env, locals, stdout, exits>>

\* except Exception as exep: print(exep)
Except ==
    /\ pc = "except"
    /\ stdout' = Append(stdout, exep)
    /\ pc' = "exit1"
    /\ UNCHANGED <<env, files, locals, exep, exits, fsops, faulted, faults>>

\* sys.exit(-1) at the end of the handler
ExitFail ==
    /\ pc = "exit1"
    /\ exits' = Append(exits, PATCH_ERROR_CODE)
    /\ pc' = "exited"
    /\ UNCHANGED <<env, files, locals, exep, stdout, fsops, faulted, faults>>

\* sys.exit(0)
Exit0 ==
    /\ pc = "exit0"
    /\ exits' = Append(exits, 0)
    /\ pc' = "exited"
    /\ UNCHANGED <<env, files, locals, exep, stdout, fsops, faulted, faults>>

\* the same command line is run again on the tree the last run left
Rerun ==
    /\ pc = "exited"
    /\ Len(history) + 1 < MaxRuns
    /\ history' = history \o exits
    /\ files0' = files
    /\ pc' = "main"
    /\ entry_path' = "" /\ entry_file' = <<>> /\ file_full_path' = ""
    /\ entry_content' = <<>>
    /\ exep' = <<>> /\ stdout' = <<>> /\ exits' = <<>> /\ fsops' = <<>>
    /\ faulted' = FALSE
    /\ UNCHANGED <<sys_argv, dirs, files, faults, filesInit>>

Next ==
    \/ MainArgs
    \/ ListDir
    \/ ReadFile
    \/ CheckAndEdit
    \/ Unlink
    \/ OpenWrite
    \/ WriteLines
    \/ Except
    \/ ExitFail
    \/ Exit0
    \/ Rerun

Spec == Init /\ [][Next]_vars

\* the interpreter always takes its next step; a rerun is the caller's choice
FairSpec == Spec /\ WF_vars(MainArgs \/ ListDir \/ ReadFile \/ CheckAndEdit
                            \/ Unlink \/ OpenWrite \/ WriteLines \/ Except \/ ExitFail
                            \/ Exit0)

\* ------------------------------------------------------ claim vocabulary
Last(seq) == seq[Len(seq)]
Range(seq) == {seq[i] : i \in DOMAIN seq}
IsPrefix(a, b) == Len(a) <= Len(b) /\ SubSeq(b, 1, Len(a)) = a
EndsWith(s, suffix) ==
    Len(s) >= Len(suffix) /\ SubSeq(s, Len(s) - Len(suffix) + 1, Len(s)) = suffix

RECURSIVE RawSplit(_, _)
RawSplit(s, cur) ==
    IF s = <<>>
    THEN IF cur = <<>> THEN <<>> ELSE <<cur>>
    ELSE IF Head(s) = "\r" /\ Len(s) >= 2 /\ s[2] = "\n"
         THEN <<cur \o <<"\r", "\n">>>> \o RawSplit(SubSeq(s, 3, Len(s)), <<>>)
         ELSE IF Head(s) \in {"\n", "\r"}
              THEN <<Append(cur, Head(s))>> \o RawSplit(Tail(s), <<>>)
              ELSE RawSplit(Tail(s), Append(cur, Head(s)))

\* the lines of a stored text, each with its terminator exactly as stored
RawLines(s) == RawSplit(s, <<>>)

\* a line without its trailing newline character, if it has one
StripNewline(line) ==
    IF line # <<>> /\ Last(line) = "\n" THEN SubSeq(line, 1, Len(line) - 1) ELSE line

HasOptionsPrefix(line) ==
    /\ Len(line) >= 8
    /\ line[1] = "o" /\ line[2] = "p" /\ line[3] = "t" /\ line[4] = "i"
    /\ line[5] = "o" /\ line[6] = "n" /\ line[7] = "s" /\ line[8] = " "

\* the line ends in a bare "\n", not in "\r\n"
EndsWithLF(line) ==
    /\ line # <<>> /\ Last(line) = "\n"
    /\ (Len(line) >= 2 => line[Len(line) - 1] # "\r")

RECURSIVE Repeat(_, _)
Repeat(s, k) == IF k = 0 THEN <<>> ELSE s \o Repeat(s, k - 1)

ProcessStatus(code) == code % 256

ArgOk == Len(sys_argv) = 2
Dir == sys_argv[2] \o ENTRIES_SUFFIX
Names0 == DirNames(files0, Dir)
OneEntry0 == ArgOk /\ Dir \in dirs /\ Cardinality(Names0) = 1
Entry0 == Dir \o (CHOOSE n \in Names0 : TRUE)
Lines0 == RawLines(files0[Entry0])
WellFormed0 == OneEntry0 /\ Lines0 # <<>> /\ HasOptionsPrefix(Last(Lines0))
Succeeded == pc = "exited" /\ exits = <<0>>

FullOps == <<"listdir", "open_r", "read", "close_r",
             "unlink", "open_w", "write", "close_w">>

\* the entry was deleted and written again, and holds every edited line
FileRewritten ==
    /\ fsops = FullOps
    /\ file_full_path \in DOMAIN files
    /\ files[file_full_path] = writelines(entry_content)
    /\ EndsWith(files[file_full_path], <<" ", "r", "o", "o", "t", "w", "a", "i", "t", "\n">>)

\* append_rootwait was called and raised nothing
NoError == ArgOk /\ exep = <<>> /\ ~ faulted

\* ----------------------------------------------------------------- claims

\* C1: after a successful run on an entry whose last line starts with
\* "options " (terminated or not), the last line of the file is the original
\* last line without its trailing newline character, then " rootwait\n"; no
\* other character of the original line is removed.
C1_LastLineGetsRootwait ==
    (Succeeded /\ WellFormed0) =>
        /\ Entry0 \in DOMAIN files
        /\ RawLines(files[Entry0]) # <<>>
        /\ Last(RawLines(files[Entry0])) =
              StripNewline(Last(Lines0))
              \o <<" ", "r", "o", "o", "t", "w", "a", "i", "t", "\n">>

\* C2: a run succeeds only with exactly one entry in the entries directory;
\* with one well-formed entry (and no filesystem failure) it succeeds; with
\* zero or several entries it fails, and the printed error contains the
\* directory path and the listing found ("[]" for an empty directory).
C2_ExactlyOneEntry ==
    (pc = "exited" /\ ArgOk /\ Dir \in dirs) =>
        /\ exits = <<0>> => Cardinality(Names0) = 1
        /\ (WellFormed0 /\ ~ faulted) => exits = <<0>>
        /\ Cardinality(Names0) # 1 =>
              /\ exits = <<-1>>
              /\ Len(stdout) = 1
              /\ ~ faulted =>
                    /\ Dir \in Range(stdout[1])
                    /\ \E l \in Perms(Names0) : ListRepr(l) \in Range(stdout[1])
                    /\ Names0 = {} => "[]" \in Range(stdout[1])

C2_Witness ==
    /\ pc = "exited" /\ ArgOk /\ Dir \in dirs
    /\ Cardinality(Names0) = 2
    /\ exits = <<-1>>
    /\ stdout = << <<"Unable to find specific entry file in ",
                     "/img/boot/loader/entries/", ", found ",
                     "['b.conf', 'a.conf']", " instead">> >>

\* C3: when the last line of the entry file does not start with "options ",
\* the run never modifies, deletes or rewrites the file, and it ends in
\* failure with an error printed.
C3_BadLastLineLeavesFile ==
    (OneEntry0 /\ Lines0 # <<>> /\ ~ HasOptionsPrefix(Last(Lines0))) =>
        /\ files = files0
        /\ pc \notin {"unlink", "open_w", "write", "exit0"}
        /\ pc = "exited" =>
              /\ exits = <<-1>>
              /\ Len(stdout) = 1
              /\ ~ faulted => stdout = <<OptionsLineError>>

C3_Witness ==
    /\ OneEntry0 /\ Lines0 # <<>> /\ ~ HasOptionsPrefix(Last(Lines0))
    /\ pc = "exited"
    /\ "close_r" \in Range(fsops)
    /\ stdout = << <<"Last line of entry file is not the kernel ",
                     "commandline options">> >>

\* C4: whenever a run ends, failed write step included, the entry file
\* exists at its path.
C4_EntryFileExistsAtEnd ==
    (pc = "exited" /\ OneEntry0) => Entry0 \in DOMAIN files

\* C5: after a successful run on an entry of N > 1 lines the file has N
\* lines and lines 1..N-1 are identical to the original ones, terminators
\* included.
C5_OtherLinesIdentical ==
    (Succeeded /\ WellFormed0 /\ Len(Lines0) > 1) =>
        /\ Entry0 \in DOMAIN files
        /\ Len(RawLines(files[Entry0])) = Len(Lines0)
        /\ \A i \in 1..(Len(Lines0) - 1) : RawLines(files[Entry0])[i] = Lines0[i]

\* C6: there is no guard against an existing "rootwait": after k successful
\* runs in a row on an entry whose last line is "options X\n", the last line
\* is "options X", k times " rootwait", and a newline; and each of these
\* runs succeeds unless a filesystem call fails.
NamesInit == DirNames(filesInit, Dir)
EntryInit == Dir \o (CHOOSE n \in NamesInit : TRUE)
LinesInit == RawLines(filesInit[EntryInit])
OptionsLFInit ==
    /\ ArgOk /\ Dir \in dirs /\ Cardinality(NamesInit) = 1
    /\ LinesInit # <<>>
    /\ HasOptionsPrefix(Last(LinesInit))
    /\ EndsWithLF(Last(LinesInit))

C6_RepeatedRunsStackRootwait ==
    (OptionsLFInit /\ pc = "exited" /\ \A i \in DOMAIN history : history[i] = 0) =>
        /\ ~ faulted => exits = <<0>>
        /\ exits = <<0>> =>
              /\ EntryInit \in DOMAIN files
              /\ Last(RawLines(files[EntryInit])) =
                    StripNewline(Last(LinesInit))
                    \o Repeat(<<" ", "r", "o", "o", "t", "w", "a", "i", "t">>,
                              Len(history) + 1)
                    \o <<"\n">>

C6_Witness ==
    /\ OptionsLFInit /\ pc = "exited"
    /\ history = <<0>> /\ exits = <<0>>
    /\ filesInit[EntryInit] = <<"o", "p", "t", "i", "o", "n", "s", " ", "x", "\n">>
    /\ files[EntryInit] =
          <<"o", "p", "t", "i", "o", "n", "s", " ", "x",
            " ", "r", "o", "o", "t", "w", "a", "i", "t",
            " ", "r", "o", "o", "t", "w", "a", "i", "t", "\n">>

\* C7: with zero or with two or more positional arguments the run makes no
\* filesystem call, prints nothing and exits with a non-zero status; with one
\* argument naming a well-formed tree (and no filesystem failure) it exits 0.
C7_ArgumentCount ==
    /\ Len(sys_argv) # 2 =>
          /\ fsops = <<>>
          /\ stdout = <<>>
          /\ files = files0
          /\ pc \in {"main", "exited"}
          /\ pc = "exited" => (Len(exits) = 1 /\ ProcessStatus(exits[1]) # 0)
    /\ (pc = "exited" /\ WellFormed0 /\ ~ faulted) => exits = <<0>>

C7_Witness ==
    /\ Len(sys_argv) = 3
    /\ pc = "exited"
    /\ exits = <<-1>>
    /\ DOMAIN files # {}

\* C8 (as claimed): every invocation ends with exactly one exit status; the
\* status is 0 exactly when the file was rewritten with the new last line; a
\* failure during patching prints its description first and then exits with
\* -1; a successful run prints nothing.
C8_OriginalInv ==
    /\ Len(exits) <= 1
    /\ pc = "exited" <=> Len(exits) = 1
    /\ pc = "exited" => (exits = <<0>> <=> FileRewritten)
    /\ (pc = "exited" /\ ArgOk /\ ~ FileRewritten) =>
          /\ exits = <<-1>>
          /\ Len(stdout) = 1
          /\ stdout[1] # <<>>
    /\ pc = "exit1" => (Len(stdout) = 1 /\ stdout[1] # <<>> /\ exits = <<>>)
    /\ exits = <<0>> => stdout = <<>>

C8_StatusZeroIffRewritten ==
    /\ [] C8_OriginalInv
    /\ (pc # "exited") ~> (pc = "exited")

\* C8 (amended): every invocation ends with exactly one exit status; the
\* status is 0 exactly when append_rootwait raised no error, and then the
\* file was rewritten with the new last line (a run whose write or close
\* reports an error exits -1 even if the whole new text is in the file); a
\* failure during patching prints its description first and then exits with
\* -1; a successful run prints nothing.
C8_ExitInv ==
    /\ Len(exits) <= 1
    /\ pc = "exited" <=> Len(exits) = 1
    /\ pc = "exited" => (exits = <<0>> <=> NoError)
    /\ exits = <<0>> => FileRewritten
    /\ (pc = "exited" /\ ArgOk /\ ~ NoError) =>
          /\ exits = <<-1>>
          /\ Len(stdout) = 1
          /\ stdout[1] # <<>>
    /\ pc = "exit1" => (Len(stdout) = 1 /\ stdout[1] # <<>> /\ exits = <<>>)
    /\ exits = <<0>> => stdout = <<>>

C8_ExitDiscipline ==
    /\ [] C8_ExitInv
    /\ (pc # "exited") ~> (pc = "exited")

\* a failed run that left the whole new text in the file
C8_Witness ==
    /\ pc = "exited" /\ exits = <<-1>>
    /\ faulted
    /\ FileRewritten
    /\ stdout = << <<"[Errno 28] No space left on device">> >>

\* C9: the delete and the write come only after both gates have passed and
\* after the file was read and closed, the write only after the delete; a
\* run that fails at or before a gate (zero or several entries, an entry
\* with no lines) fails with an error and changes no file.
C9_GatesBeforeMutation ==
    /\ IsPrefix(fsops, FullOps)
    /\ "unlink" \in Range(fsops) => WellFormed0
    /\ files # files0 => "unlink" \in Range(fsops)
    /\ (pc = "exited" /\ ArgOk /\ "unlink" \notin Range(fsops)) =>
          (exits = <<-1>> /\ Len(stdout) = 1 /\ files = files0)
    /\ (pc = "exited" /\ ArgOk /\ Dir \in dirs
        /\ (Cardinality(Names0) # 1 \/ Lines0 = <<>>)) =>
          (exits = <<-1>> /\ Len(stdout) = 1 /\ files = files0
           /\ "unlink" \notin Range(fsops))

C9_Witness ==
    /\ pc = "exited" /\ OneEntry0
    /\ files0[Entry0] = <<>>
    /\ files = files0
    /\ stdout = << <<"list index out of range">> >>

\* C10: a successful run keeps the set of names in the entries directory:
\* one entry, same name, same path, nothing else created or deleted; and the
\* last line of the entry still starts with "options ".
C10_NamesPreserved ==
    Succeeded =>
        /\ OneEntry0
        /\ DOMAIN files = DOMAIN files0
        /\ DirNames(files, Dir) = Names0
        /\ RawLines(files[Entry0]) # <<>>
        /\ HasOptionsPrefix(Last(RawLines(files[Entry0])))

C10_Witness ==
    /\ Succeeded /\ OneEntry0
    /\ files0[Entry0] = <<"o", "p", "t", "i", "o", "n", "s", " ">>
    /\ files[Entry0] = <<"o", "p", "t", "i", "o", "n", "s",
                        " ", "r", "o", "o", "t", "w", "a", "i", "t", "\n">>
====
